---- MODULE Spec2Model ----
(***************************************************************************)
(* A model of MockDB, the in-memory ledger storage backend of              *)
(* shared/src/ledger/storage/mockdb.rs.                                    *)
(*                                                                         *)
(* Strings are sequences of byte codes, so that the BTreeMap's key order   *)
(* (lexicographic on bytes) is the order the model computes with.  Values  *)
(* are sequences of bytes.  The map is the sequence of its entries in key   *)
(* order.                                                                  *)
(***************************************************************************)
EXTENDS Integers, Sequences, FiniteSets, TLC

(***************************************************************************)
(* String literals of the source, as byte sequences.                       *)
(***************************************************************************)
S_height == <<104, 101, 105, 103, 104, 116>>                    \* "height"
S_next_epoch_min_start_height ==                  \* "next_epoch_min_start_height"
    <<110, 101, 120, 116, 95, 101, 112, 111, 99, 104, 95, 109, 105, 110, 95,
      115, 116, 97, 114, 116, 95, 104, 101, 105, 103, 104, 116>>
S_next_epoch_min_start_time ==                      \* "next_epoch_min_start_time"
    <<110, 101, 120, 116, 95, 101, 112, 111, 99, 104, 95, 109, 105, 110, 95,
      115, 116, 97, 114, 116, 95, 116, 105, 109, 101>>
S_tree == <<116, 114, 101, 101>>                                \* "tree"
S_root == <<114, 111, 111, 116>>                                \* "root"
S_store == <<115, 116, 111, 114, 101>>                          \* "store"
S_hash == <<104, 97, 115, 104>>                                 \* "hash"
S_epoch == <<101, 112, 111, 99, 104>>                           \* "epoch"
S_pred_epochs == <<112, 114, 101, 100, 95, 101, 112, 111, 99, 104, 115>>
S_address_gen == <<97, 100, 100, 114, 101, 115, 115, 95, 103, 101, 110>>
S_subspace == <<115, 117, 98, 115, 112, 97, 99, 101>>           \* "subspace"
S_a == <<97>>                                                   \* "a"
S_b == <<98>>                                                   \* "b"
S_x == <<120>>                                                  \* "x"
S_y == <<121>>                                                  \* "y"
S_extra == <<101, 120, 116, 114, 97>>                           \* "extra"
S_zzz == <<122, 122, 122>>                                      \* "zzz"

\* The byte of '/', the reserved separator between the segments of a key.
KEY_SEGMENT_SEPARATOR == 47

(***************************************************************************)
(* Strings: order, prefixes, splitting, decimal formatting.                *)
(***************************************************************************)
\* The first index at which a and b differ, or the first past the shorter.
RECURSIVE FirstDiff(_, _, _)
FirstDiff(a, b, i) ==
    IF i > Len(a) \/ i > Len(b) THEN i
    ELSE IF a[i] # b[i] THEN i
    ELSE FirstDiff(a, b, i + 1)

\* a < b in the order of Rust's String (lexicographic on the bytes).
StrLt(a, b) ==
    LET i == FirstDiff(a, b, 1)
    IN  IF i > Len(a) THEN i <= Len(b)
        ELSE IF i > Len(b) THEN FALSE
        ELSE a[i] < b[i]

StrLe(a, b) == a = b \/ StrLt(a, b)

\* str::starts_with
starts_with(s, p) == Len(p) <= Len(s) /\ SubSeq(s, 1, Len(p)) = p

\* str::strip_prefix: <<rest>> when s starts with p, <<>> (None) otherwise.
strip_prefix(s, p) ==
    IF starts_with(s, p) THEN <<SubSeq(s, Len(p) + 1, Len(s))>> ELSE <<>>

\* str::split on the separator: the sequence of segments, empty ones kept.
RECURSIVE SplitFrom(_, _, _)
SplitFrom(s, i, cur) ==
    IF i > Len(s) THEN <<cur>>
    ELSE IF s[i] = KEY_SEGMENT_SEPARATOR
         THEN <<cur>> \o SplitFrom(s, i + 1, <<>>)
         ELSE SplitFrom(s, i + 1, Append(cur, s[i]))

split(s) == SplitFrom(s, 1, <<>>)

\* BlockHeight::raw: the decimal string of a height (format!("{}", n));
\* 48 is the byte of the digit '0'.
RECURSIVE raw(_)
raw(n) ==
    IF n < 10 THEN <<48 + n>>
    ELSE raw(n \div 10) \o <<48 + (n % 10)>>

\* BlockHeight::next_height
next_height(h) == h + 1

\* Key::to_string: the segments of a key joined by the separator.
RECURSIVE KeyToString(_)
KeyToString(segs) ==
    IF Len(segs) = 0 THEN <<>>
    ELSE IF Len(segs) = 1 THEN segs[1]
    ELSE segs[1] \o <<KEY_SEGMENT_SEPARATOR>> \o KeyToString(Tail(segs))

(***************************************************************************)
(* The codec: a u64 is its 8 bytes, little endian; a value of any other    *)
(* length does not decode.  The typed fields of a block are numbers here.  *)
(***************************************************************************)
RECURSIVE LittleEndian(_, _)
LittleEndian(n, w) ==
    IF w = 0 THEN <<>> ELSE <<n % 256>> \o LittleEndian(n \div 256, w - 1)

encode(n) == LittleEndian(n, 8)

RECURSIVE FromLittleEndian(_)
FromLittleEndian(bytes) ==
    IF Len(bytes) = 0 THEN 0
    ELSE bytes[1] + 256 * FromLittleEndian(Tail(bytes))

\* <<n>> when the bytes decode to n, <<>> on a coding error.
decode(bytes) ==
    IF Len(bytes) = 8 THEN <<FromLittleEndian(bytes)>> ELSE <<>>

(***************************************************************************)
(* BTreeMap<String, Vec<u8>>: the entries <<key, value>> in ascending key  *)
(* order, one per key.                                                     *)
(***************************************************************************)
EmptyMap == <<>>

\* The keys of a map.
Keys(m) == {m[i][1] : i \in 1..Len(m)}

\* BTreeMap::get of a key the map holds.
get(m, k) == m[CHOOSE i \in 1..Len(m) : m[i][1] = k][2]

\* A slip: a key that is present keeps its earlier value.
insert_if_absent(m, k, v) ==
    IF k \in Keys(m) THEN m
    ELSE SelectSeq(m, LAMBDA e : StrLt(e[1], k)) \o << <<k, v>> >>
         \o SelectSeq(m, LAMBDA e : StrLt(k, e[1]))

\* BTreeMap::insert: the map after the insert.
insert(m, k, v) ==
    SelectSeq(m, LAMBDA e : StrLt(e[1], k))
    \o << <<k, v>> >>
    \o SelectSeq(m, LAMBDA e : StrLt(k, e[1]))

\* A slip: the removal leaves the entry in place.
remove_nothing(m, k) == m

\* BTreeMap::remove: the map after the removal.
remove(m, k) == SelectSeq(m, LAMBDA e : e[1] # k)

\* BTreeMap::into_iter: the entries in ascending key order.
into_iter(m) == m

\* BTreeMap::range((Included(lo), Excluded(hi))) panics when lo > hi.
range_panics(lo, hi) == StrLt(hi, lo)

\* The entries of BTreeMap::range((Included(lo), Excluded(hi))), ascending.
range(m, lo, hi) == SelectSeq(m, LAMBDA e : StrLe(lo, e[1]) /\ StrLt(e[1], hi))

(***************************************************************************)
(* Block states                                                            *)
(***************************************************************************)
\* The heights blocks are written at.  The successor of 9 has one more
\* decimal digit than 9, and "2/" lies between "19/" and "20/".
Heights == {2, 9, 19}

\* BlockStateWrite: the record write_block takes.  There is one per height;
\* the values of its fields differ from field to field and from height to
\* height.
BlockState(h) ==
    [height |-> h,
     root |-> 100 + h,
     store |-> 200 + h,
     hash |-> 300 + h,
     epoch |-> h \div 4,
     pred_epochs |-> 400 + h,
     next_epoch_min_start_height |-> h + 5,
     next_epoch_min_start_time |-> 500 + h,
     address_gen |-> 600 + h]

BlockStates == {BlockState(h) : h \in Heights}

\* The value of a result's block where there is none.
NoBlock == BlockState(0)

\* The six height-scoped fields in the order write_block writes them, each
\* with the segments pushed after the height.
BlockFields ==
    << <<"root", <<S_tree, S_root>> >>,
       <<"store", <<S_tree, S_store>> >>,
       <<"hash", <<S_hash>> >>,
       <<"epoch", <<S_epoch>> >>,
       <<"pred_epochs", <<S_pred_epochs>> >>,
       <<"address_gen", <<S_address_gen>> >> >>

\* A slip: the height is left out of the key of a height-scoped field.
block_key_no_height(h, segs) == KeyToString(segs)

\* Key::from(height.to_db_key()) with the segments pushed, as a string.
block_key(h, segs) == KeyToString(<<raw(h)>> \o segs)

\* A slip: the height marker is published first.
write_block_inserts_marker_first(s) ==
    << <<S_height, encode(s.height)>>,
       <<S_next_epoch_min_start_height, encode(s.next_epoch_min_start_height)>>,
       <<S_next_epoch_min_start_time, encode(s.next_epoch_min_start_time)>> >>
    \o [i \in 1..Len(BlockFields) |->
          <<block_key(s.height, BlockFields[i][2]), encode(s[BlockFields[i][1]])>>]

\* The inserts of write_block, <<key, value>>, in the order of the source.
write_block_inserts(s) ==
    << <<S_next_epoch_min_start_height, encode(s.next_epoch_min_start_height)>>,
       <<S_next_epoch_min_start_time, encode(s.next_epoch_min_start_time)>> >>
    \o [i \in 1..Len(BlockFields) |->
          <<block_key(s.height, BlockFields[i][2]), encode(s[BlockFields[i][1]])>>]
    \o << <<S_height, encode(s.height)>> >>

\* The map after the first n of a sequence of inserts.
RECURSIVE apply_inserts(_, _, _)
apply_inserts(m, ins, n) ==
    IF n = 0 THEN m
    ELSE insert(apply_inserts(m, ins, n - 1), ins[n][1], ins[n][2])

\* The map after write_block(s).
write_block_map(m, s) ==
    LET ins == write_block_inserts(s) IN apply_inserts(m, ins, Len(ins))

(***************************************************************************)
(* read_last_block                                                         *)
(***************************************************************************)
\* Result<Option<BlockStateRead>>, and "Panic" for a call that aborts.
ResNone == [kind |-> "None", err |-> "", key |-> <<>>, block |-> NoBlock]
ResOk(b) == [kind |-> "Ok", err |-> "", key |-> <<>>, block |-> b]
ResErr(e, k) == [kind |-> "Err", err |-> e, key |-> k, block |-> NoBlock]
ResPanic == [kind |-> "Panic", err |-> "", key |-> <<>>, block |-> NoBlock]

\* The match on the segments of a scanned path: the field the path is
\* decoded into, or "" for a path that ends in unknown_key_error.
field_of(segments) ==
    IF Len(segments) < 2 THEN ""
    ELSE IF segments[2] = S_tree
         THEN IF Len(segments) < 3 THEN ""
              ELSE IF segments[3] = S_root THEN "root"
              ELSE IF segments[3] = S_store THEN "store"
              ELSE ""
    ELSE IF segments[2] = S_hash THEN "hash"
    ELSE IF segments[2] = S_epoch THEN "epoch"
    ELSE IF segments[2] = S_pred_epochs THEN "pred_epochs"
    ELSE IF segments[2] = S_address_gen THEN "address_gen"
    ELSE ""

\* The six Options before the scan; err is set by the first failing path.
ScanStart ==
    [root |-> <<>>, store |-> <<>>, hash |-> <<>>, epoch |-> <<>>,
     pred_epochs |-> <<>>, address_gen |-> <<>>, err |-> "", key |-> <<>>]

\* The loop over the entries of the range, from the i-th on.
RECURSIVE scan(_, _, _)
scan(entries, i, acc) ==
    IF i > Len(entries) THEN acc
    ELSE LET path == entries[i][1]
             f == field_of(split(path))
             d == decode(entries[i][2])
         IN  IF f = "" THEN [acc EXCEPT !.err = "UnknownKey", !.key = path]
             ELSE IF d = <<>> THEN [acc EXCEPT !.err = "CodingError", !.key = path]
             ELSE scan(entries, i + 1, [acc EXCEPT ![f] = d])

\* The bounds of the range read_last_block scans for the latest height h.
prefix_of(h) == raw(h) \o <<KEY_SEGMENT_SEPARATOR>>
upper_prefix_of(h) == raw(next_height(h)) \o <<KEY_SEGMENT_SEPARATOR>>

\* The entries read_last_block visits for the latest height h: none when
\* the range panics.
scanned(m, h) ==
    IF range_panics(prefix_of(h), upper_prefix_of(h)) THEN <<>>
    ELSE range(m, prefix_of(h), upper_prefix_of(h))

\* read_last_block from the scan on, for the latest height.
last_block_at(m, height) ==
    IF range_panics(prefix_of(height), upper_prefix_of(height)) THEN ResPanic
    ELSE LET r == scan(scanned(m, height), 1, ScanStart)
         IN  IF r.err # "" THEN ResErr(r.err, r.key)
             ELSE IF \E i \in 1..Len(BlockFields) : r[BlockFields[i][1]] = <<>>
                  THEN ResErr("Temporary", <<>>)
             ELSE ResOk(
                    [height |-> height,
                     root |-> r.root[1],
                     store |-> r.store[1],
                     hash |-> r.hash[1],
                     epoch |-> r.epoch[1],
                     pred_epochs |-> r.pred_epochs[1],
                     next_epoch_min_start_height |->
                         decode(get(m, S_next_epoch_min_start_height))[1],
                     next_epoch_min_start_time |->
                         decode(get(m, S_next_epoch_min_start_time))[1],
                     address_gen |-> r.address_gen[1]])

\* The three unscoped keys read before the scan: the result when one of
\* them is missing or does not decode, and [kind |-> "Scan"] otherwise.
unscoped_keys(m) ==
    IF S_height \notin Keys(m) THEN ResNone
    ELSE IF decode(get(m, S_height)) = <<>> THEN ResErr("CodingError", S_height)
    ELSE IF S_next_epoch_min_start_height \notin Keys(m) THEN ResNone
    ELSE IF decode(get(m, S_next_epoch_min_start_height)) = <<>>
         THEN ResErr("CodingError", S_next_epoch_min_start_height)
    ELSE IF S_next_epoch_min_start_time \notin Keys(m) THEN ResNone
    ELSE IF decode(get(m, S_next_epoch_min_start_time)) = <<>>
         THEN ResErr("CodingError", S_next_epoch_min_start_time)
    ELSE [kind |-> "Scan"]

\* A slip: a store without the height key is taken for one whose block
\* fields are missing.
last_block_no_fresh_store(m) ==
    IF S_height \notin Keys(m) THEN ResErr("Temporary", <<>>)
    ELSE IF unscoped_keys(m).kind # "Scan" THEN unscoped_keys(m)
    ELSE last_block_at(m, decode(get(m, S_height))[1])

\* The result of read_last_block on the map m.
last_block(m) ==
    IF unscoped_keys(m).kind # "Scan" THEN unscoped_keys(m)
    ELSE last_block_at(m, decode(get(m, S_height))[1])

(***************************************************************************)
(* The subspace                                                            *)
(***************************************************************************)
\* The application keys (as segments) and the iteration prefixes used.
AppKeys == {<<S_a, S_x>>, <<S_a, S_y>>}
Prefixes == {<<S_a>>, <<S_a, S_x>>, <<S_b>>}

\* Values are the strings "1", "22", ... up to this length.
MaxValueLen == 2
Values == {[i \in 1..n |-> 48 + n] : n \in 1..MaxValueLen}

\* The height arguments of the subspace operations.
SubspaceHeights == {0, 19}

\* A slip: the application key is used as the backend key as it is.
subspace_key_unscoped(key) == KeyToString(key)

\* Key::parse("subspace").join(key).to_string()
subspace_key(key) == KeyToString(<<S_subspace>> \o key)

\* Option<Vec<u8>>
None == [some |-> FALSE, val |-> <<>>]
Some(v) == [some |-> TRUE, val |-> v]

\* The result of read_subspace_val(key) on the map m.
subspace_val(m, key) ==
    LET k == subspace_key(key)
    IN  IF k \in Keys(m) THEN Some(get(m, k)) ELSE None

\* A slip: the length of the previous value is not subtracted.
write_delta_new_len(m, k, value) == Len(value)

\* The i64 write_subspace_val returns for an insert into the map m.
write_delta(m, k, value) ==
    IF k \in Keys(m) THEN Len(value) - Len(get(m, k)) ELSE Len(value)

\* A slip: the length is looked up after the removal, so it is always 0.
delete_len_after(m, k) == 0

\* The i64 delete_subspace_val returns for a removal from the map m.
delete_len(m, k) == IF k \in Keys(m) THEN Len(get(m, k)) ELSE 0

\* A slip: the batched write reports the new length, not the difference.
batch_write_delta_len(m, k, value) == Len(value)

\* The i64 batch_write_subspace_val returns for an insert into the map m.
batch_write_delta(m, k, value) ==
    IF k \in Keys(m) THEN Len(value) - Len(get(m, k)) ELSE Len(value)

\* A slip: the batched delete reports the number of entries removed.
batch_delete_len_count(m, k) == IF k \in Keys(m) THEN 1 ELSE 0

\* The i64 batch_delete_subspace_val returns for a removal from the map m.
batch_delete_len(m, k) == IF k \in Keys(m) THEN Len(get(m, k)) ELSE 0

(***************************************************************************)
(* Prefix iteration                                                        *)
(***************************************************************************)
\* "subspace/", the db_prefix of iter_prefix.
db_prefix_of == S_subspace \o <<KEY_SEGMENT_SEPARATOR>>

\* format!("{}{}", db_prefix, prefix)
iter_prefix_of(p) == db_prefix_of \o KeyToString(p)

\* A slip: the iterator ends at the first entry outside the prefix instead
\* of skipping it.
mock_next_stop(entries, prefix) ==
    IF Len(entries) = 0 THEN [rest |-> <<>>, item |-> <<>>]
    ELSE IF starts_with(Head(entries)[1], prefix)
         THEN [rest |-> Tail(entries), item |-> <<Head(entries)>>]
         ELSE [rest |-> Tail(entries), item |-> <<>>]

\* MockIterator::next on the remaining entries: the entries left and the
\* item returned, <<entry>> or <<>> (None).
RECURSIVE mock_next(_, _)
mock_next(entries, prefix) ==
    IF Len(entries) = 0 THEN [rest |-> <<>>, item |-> <<>>]
    ELSE IF starts_with(Head(entries)[1], prefix)
         THEN [rest |-> Tail(entries), item |-> <<Head(entries)>>]
         ELSE mock_next(Tail(entries), prefix)

\* A slip: the gas counts the value alone.
gas_of_value(k, val) == Len(val)

\* A slip: the gas counts the whole backend key, "subspace/" included.
gas_of_backend_key(k, val) == Len(S_subspace) + 1 + Len(k) + Len(val)

\* The gas of a yielded entry.
gas_of(k, val) == Len(k) + Len(val)

\* PrefixIterator<MockIterator>::next: the entries left and the item
\* returned, <<[key, val, gas]>> or <<>> (None).
RECURSIVE prefix_next(_, _, _)
prefix_next(entries, prefix, db_prefix) ==
    LET r == mock_next(entries, prefix)
    IN  IF r.item = <<>> THEN [rest |-> r.rest, item |-> <<>>]
        ELSE LET key == r.item[1][1]
                 val == r.item[1][2]
                 k == strip_prefix(key, db_prefix)
             IN  IF k = <<>> THEN prefix_next(r.rest, prefix, db_prefix)
                 ELSE [rest |-> r.rest,
                       item |-> <<[key |-> k[1], val |-> val, gas |-> gas_of(k[1], val)]>>]

(***************************************************************************)
(* The state machine                                                       *)
(***************************************************************************)
VARIABLES
    db,        \* MockDB.0: the map
    last,      \* the last call: its name and what it returned
    written,   \* the block states write_block was called with, in order
    it,        \* the iterator iter_prefix returned last
    out,       \* the items that iterator has yielded so far
    raws,      \* the number of entries put into the map directly
    wb         \* the write_block in progress: its argument and the number
               \* of its inserts done so far

vars == <<db, last, written, it, out, raws, wb>>

\* write_block is called at most this many times.
MaxBlocks == 2

\* At most this many entries are put into the map directly.
MaxRaw == 2

Call(op, ret) == [op |-> op, ret |-> ret]

\* No write_block in progress.
NoWrite == [s |-> NoBlock, n |-> 0]

\* No iterator yet, or none any more.
NoIter ==
    [live |-> FALSE, prefix |-> <<>>, db_prefix |-> <<>>, iter |-> <<>>,
     snap |-> EmptyMap, done |-> FALSE]

\* The caller lets go of its iterator before it writes.
DropIter == it' = NoIter /\ out' = <<>>

\* MockDB::open
Init ==
    /\ db = EmptyMap
    /\ last = Call("open", 0)
    /\ written = <<>>
    /\ it = NoIter
    /\ out = <<>>
    /\ raws = 0
    /\ wb = NoWrite

flush ==
    /\ last' = Call("flush", 0)
    /\ UNCHANGED <<db, written, it, out, raws, wb>>

read_last_block ==
    /\ last' = Call("read_last_block", last_block(db))
    /\ UNCHANGED <<db, written, it, out, raws, wb>>

\* The height of the latest block written, -1 before the first.
LatestHeight == IF written = <<>> THEN -1 ELSE written[Len(written)].height

\* Blocks are written at strictly increasing heights.
write_block(s) ==
    /\ Len(written) < MaxBlocks
    /\ s.height > LatestHeight
    /\ db' = write_block_map(db, s)
    /\ last' = Call("write_block", 0)
    /\ written' = Append(written, s)
    /\ UNCHANGED <<raws, wb>>

read_subspace_val(key) ==
    /\ last' = Call("read_subspace_val", subspace_val(db, key))
    /\ UNCHANGED <<db, written, it, out, raws, wb>>

write_subspace_val(height, key, value) ==
    /\ db' = insert(db, subspace_key(key), value)
    /\ last' = Call("write_subspace_val", write_delta(db, subspace_key(key), value))
    /\ UNCHANGED <<written, raws, wb>>

delete_subspace_val(height, key) ==
    /\ db' = remove(db, subspace_key(key))
    /\ last' = Call("delete_subspace_val", delete_len(db, subspace_key(key)))
    /\ UNCHANGED <<written, raws, wb>>

batch ==
    /\ last' = Call("batch", 0)
    /\ UNCHANGED <<db, written, it, out, raws, wb>>

exec_batch ==
    /\ last' = Call("exec_batch", 0)
    /\ UNCHANGED <<db, written, it, out, raws, wb>>

\* A slip: the batched write is held back for exec_batch, which drops it.
batch_write_deferred(height, key, value) ==
    /\ db' = db
    /\ last' = Call("batch_write_subspace_val",
                    batch_write_delta(db, subspace_key(key), value))
    /\ UNCHANGED <<written, raws, wb>>

batch_write_subspace_val(height, key, value) ==
    /\ db' = insert(db, subspace_key(key), value)
    /\ last' = Call("batch_write_subspace_val",
                    batch_write_delta(db, subspace_key(key), value))
    /\ UNCHANGED <<written, raws, wb>>

batch_delete_subspace_val(height, key) ==
    /\ db' = remove(db, subspace_key(key))
    /\ last' = Call("batch_delete_subspace_val",
                    batch_delete_len(db, subspace_key(key)))
    /\ UNCHANGED <<written, raws, wb>>

\* MockDBWriteBatch::put
put(key, value) ==
    /\ last' = Call("put", 0)
    /\ UNCHANGED <<db, written, it, out, raws, wb>>

\* MockDBWriteBatch::delete
delete(key) ==
    /\ last' = Call("delete", 0)
    /\ UNCHANGED <<db, written, it, out, raws, wb>>

iter_prefix(prefix) ==
    /\ it' = [live |-> TRUE,
              prefix |-> iter_prefix_of(prefix),
              db_prefix |-> db_prefix_of,
              iter |-> into_iter(db),
              snap |-> db,
              done |-> FALSE]
    /\ out' = <<>>
    /\ last' = Call("iter_prefix", 0)
    /\ UNCHANGED <<db, written, raws, wb>>

\* A slip: the iterator walks the live map, from the position it has reached,
\* instead of the copy it was created with.
next_live ==
    /\ it.live
    /\ LET reached == Len(it.snap) - Len(it.iter)
           live == SubSeq(db, reached + 1, Len(db))
           r == prefix_next(live, it.prefix, it.db_prefix)
           used == Len(live) - Len(r.rest)
       IN  /\ it' = [it EXCEPT
                       !.iter = SubSeq(it.iter, used + 1, Len(it.iter)),
                       !.done = (r.item = <<>>)]
           /\ out' = out \o r.item
           /\ last' = Call("next", r.item)
    /\ UNCHANGED <<db, written, raws, wb>>

\* PrefixIterator<MockIterator>::next on the iterator
next ==
    /\ it.live
    /\ LET r == prefix_next(it.iter, it.prefix, it.db_prefix)
       IN  /\ it' = [it EXCEPT !.iter = r.rest, !.done = (r.item = <<>>)]
           /\ out' = out \o r.item
           /\ last' = Call("next", r.item)
    /\ UNCHANGED <<db, written, raws, wb>>

Next ==
    \/ flush
    \/ read_last_block
    \/ \E s \in BlockStates : write_block(s) /\ DropIter
    \/ \E key \in AppKeys : read_subspace_val(key)
    \/ \E h \in SubspaceHeights, key \in AppKeys, value \in Values :
           write_subspace_val(h, key, value) /\ DropIter
    \/ \E h \in SubspaceHeights, key \in AppKeys :
           delete_subspace_val(h, key) /\ DropIter
    \/ batch
    \/ exec_batch
    \/ \E h \in SubspaceHeights, key \in AppKeys, value \in Values :
           batch_write_subspace_val(h, key, value) /\ DropIter
    \/ \E h \in SubspaceHeights, key \in AppKeys :
           batch_delete_subspace_val(h, key) /\ DropIter
    \/ \E key \in AppKeys, value \in Values : put(subspace_key(key), value)
    \/ \E key \in AppKeys : delete(subspace_key(key))
    \/ \E prefix \in Prefixes : iter_prefix(prefix)
    \/ next

Spec == Init /\ [][Next]_vars

(***************************************************************************)
(* A store populated by hand: entries put into the map directly, as a test *)
(* of this module does, next to the blocks written through write_block.    *)
(***************************************************************************)
\* The entries put into the map directly: a height marker without a block,
\* keys under height 2 that are none of the six, and a value that does not
\* decode.
RawEntries ==
    { <<S_height, encode(3)>>,
      <<block_key(2, <<S_hash, S_extra>>), encode(7)>>,
      <<block_key(2, <<S_tree, S_root, S_extra>>), encode(7)>>,
      <<block_key(2, <<S_zzz>>), encode(7)>>,
      <<block_key(2, <<S_tree>>), encode(7)>>,
      <<block_key(2, <<S_epoch>>), <<49>> >> }

raw_insert(k, v) ==
    /\ raws < MaxRaw
    /\ db' = insert(db, k, v)
    /\ last' = Call("raw_insert", 0)
    /\ raws' = raws + 1
    /\ UNCHANGED <<written, it, out, wb>>

NextRaw ==
    \/ \E s \in BlockStates : write_block(s) /\ UNCHANGED <<it, out>>
    \/ \E e \in RawEntries : raw_insert(e[1], e[2])
    \/ read_last_block

SpecRaw == Init /\ [][NextRaw]_vars

(***************************************************************************)
(* write_block taken one map insert at a time, at heights in any order,    *)
(* with a reader that may look at the store after every insert.            *)
(***************************************************************************)
\* The next insert of write_block(s): the first one when no write_block is
\* in progress, and the one after the last done otherwise.
write_block_insert(s) ==
    /\ IF wb.n = 0
       THEN Len(written) < MaxBlocks /\ written' = Append(written, s)
       ELSE s = wb.s /\ UNCHANGED written
    /\ LET ins == write_block_inserts(s)
           n == wb.n + 1
       IN  /\ db' = insert(db, ins[n][1], ins[n][2])
           /\ wb' = IF n = Len(ins) THEN NoWrite ELSE [s |-> s, n |-> n]
           /\ last' = IF n = Len(ins) THEN Call("write_block", 0)
                      ELSE Call("write_block_insert", n)
    /\ UNCHANGED <<it, out, raws>>

NextStep ==
    \/ \E s \in BlockStates : write_block_insert(s)
    \/ read_last_block

SpecStep == Init /\ [][NextStep]_vars

(***************************************************************************)
(* The subspace alone: its point and batched operations on a store that    *)
(* holds no block and has no iterator open.                                *)
(***************************************************************************)
NextSub ==
    \/ \E key \in AppKeys : read_subspace_val(key)
    \/ \E h \in SubspaceHeights, key \in AppKeys, value \in Values :
           write_subspace_val(h, key, value) /\ UNCHANGED <<it, out>>
    \/ \E h \in SubspaceHeights, key \in AppKeys :
           delete_subspace_val(h, key) /\ UNCHANGED <<it, out>>
    \/ batch
    \/ exec_batch
    \/ \E h \in SubspaceHeights, key \in AppKeys, value \in Values :
           batch_write_subspace_val(h, key, value) /\ UNCHANGED <<it, out>>
    \/ \E h \in SubspaceHeights, key \in AppKeys :
           batch_delete_subspace_val(h, key) /\ UNCHANGED <<it, out>>

SpecSub == Init /\ [][NextSub]_vars

(***************************************************************************)
(* An iterator kept open while the subspace is written: the borrow of      *)
(* iter_prefix ends when it returns, and the batched operations take &self.*)
(***************************************************************************)
NextIter ==
    \/ \E prefix \in Prefixes : iter_prefix(prefix)
    \/ next
    \/ \E h \in SubspaceHeights, key \in AppKeys, value \in Values :
           write_subspace_val(h, key, value) /\ UNCHANGED <<it, out>>
    \/ \E h \in SubspaceHeights, key \in AppKeys :
           delete_subspace_val(h, key) /\ UNCHANGED <<it, out>>
    \/ \E h \in SubspaceHeights, key \in AppKeys, value \in Values :
           batch_write_subspace_val(h, key, value) /\ UNCHANGED <<it, out>>
    \/ \E h \in SubspaceHeights, key \in AppKeys :
           batch_delete_subspace_val(h, key) /\ UNCHANGED <<it, out>>

SpecIter == Init /\ [][NextIter]_vars

(***************************************************************************)
(* Blocks and the subspace written side by side.                           *)
(***************************************************************************)
NextBoth ==
    \/ \E s \in BlockStates : write_block(s) /\ UNCHANGED <<it, out>>
    \/ read_last_block
    \/ \E h \in SubspaceHeights, key \in AppKeys, value \in Values :
           write_subspace_val(h, key, value) /\ UNCHANGED <<it, out>>
    \/ \E h \in SubspaceHeights, key \in AppKeys :
           delete_subspace_val(h, key) /\ UNCHANGED <<it, out>>
    \/ \E h \in SubspaceHeights, key \in AppKeys, value \in Values :
           batch_write_subspace_val(h, key, value) /\ UNCHANGED <<it, out>>
    \/ \E h \in SubspaceHeights, key \in AppKeys :
           batch_delete_subspace_val(h, key) /\ UNCHANGED <<it, out>>

SpecBoth == Init /\ [][NextBoth]_vars

(***************************************************************************)
(* Properties                                                              *)
(***************************************************************************)
\* The latest block state write_block was called with.
LatestWritten == written[Len(written)]

\* The first segment of a key.
first_segment(k) == split(k)[1]

\* C1: after write_block(s), whatever was written before at lower heights,
\* read_last_block() returns Some(block) whose fields all equal those of s.
C1_WriteThenRead ==
    last.op = "write_block" => last_block(db) = ResOk(LatestWritten)

\* C2 (its first half): read_last_block, scanning the range of the latest
\* height h, visits no key written for a height other than h.
C2_NoOtherHeightVisited ==
    written # <<>> =>
        \A i \in 1..Len(scanned(db, LatestHeight)) :
            first_segment(scanned(db, LatestHeight)[i][1]) = raw(LatestHeight)

\* C3: as long as write_block has never been called, read_last_block()
\* returns None, whatever subspace operations, batch operations, flushes and
\* iterations have run.
C3_FreshStoreNone == written = <<>> => last_block(db) = ResNone

C3_Witness ==
    /\ written = <<>>
    /\ Len(db) > 1
    /\ it.done
    /\ last = Call("read_last_block", ResNone)

\* C4: write_subspace_val(h, k, v) returns len(v) when k is absent and
\* len(v) minus the length of the stored value when k is present, for
\* every height h.
C4_WriteDelta ==
    [][\A h \in SubspaceHeights, key \in AppKeys, value \in Values :
          (last'.op = "write_subspace_val" /\ write_subspace_val(h, key, value)) =>
              LET before == subspace_val(db, key)
              IN  last'.ret = IF before.some
                              THEN Len(value) - Len(before.val)
                              ELSE Len(value)]_vars

C4_Witness == last.op = "write_subspace_val" /\ last.ret < 0

\* C5: delete_subspace_val(h, k) returns 0 and leaves the store unchanged
\* when k is absent, returns the length of the stored value when k is
\* present, and read_subspace_val(k) returns None right after it.
C5_DeleteAccounting ==
    [][\A h \in SubspaceHeights, key \in AppKeys :
          (last'.op = "delete_subspace_val" /\ delete_subspace_val(h, key)) =>
              LET before == subspace_val(db, key)
              IN  /\ ~before.some => (last'.ret = 0 /\ db' = db)
                  /\ before.some => last'.ret = Len(before.val)
                  /\ subspace_val(db', key) = None]_vars

C5_Witness ==
    /\ last = Call("delete_subspace_val", 2)
    /\ subspace_val(db, <<S_a, S_y>>) = None
    /\ subspace_val(db, <<S_a, S_x>>).some

\* The iterator over prefix a of a store holding a/x -> "1" and a/y -> "22"
\* has been run to its end.
IteratedAxAy ==
    /\ it.live
    /\ it.done
    /\ it.prefix = iter_prefix_of(<<S_a>>)
    /\ subspace_val(it.snap, <<S_a, S_x>>) = Some(<<49>>)
    /\ subspace_val(it.snap, <<S_a, S_y>>) = Some(<<50, 50>>)

\* C6 as claimed: that iteration yields ("x", "1", 2) and ("y", "22", 3).
C6_RelativeToIterationPrefix ==
    IteratedAxAy =>
        out = << [key |-> S_x, val |-> <<49>>, gas |-> 2],
                 [key |-> S_y, val |-> <<50, 50>>, gas |-> 3] >>

\* C6 as amended: that iteration yields ("a/x", "1", 4) and ("a/y", "22", 5)
\* in that order: the yielded key is the stored key relative to "subspace/",
\* and the gas counts that key plus the value.
C6_RelativeToSubspace ==
    IteratedAxAy =>
        out = << [key |-> KeyToString(<<S_a, S_x>>), val |-> <<49>>, gas |-> 4],
                 [key |-> KeyToString(<<S_a, S_y>>), val |-> <<50, 50>>, gas |-> 5] >>

C6_Witness == IteratedAxAy /\ written # <<>>

\* C7: every item an iterator yields has the stored backend key with the
\* leading "subspace/" removed as its key, the stored value unchanged as its
\* value, and the byte length of that key plus that of the value as its gas.
C7_YieldedItem ==
    \A i \in 1..Len(out) :
        LET backend == S_subspace \o <<KEY_SEGMENT_SEPARATOR>> \o out[i].key
        IN  /\ backend \in Keys(it.snap)
            /\ out[i].val = get(it.snap, backend)
            /\ out[i].gas = Len(out[i].key) + Len(out[i].val)

C7_Witness ==
    /\ Len(out) = 2
    /\ written # <<>>
    /\ \E i \in 1..Len(out) : Len(out[i].val) = 2

\* The entries an iteration over the map m with the prefix string p has to
\* yield: those whose backend key starts with p, in ascending key order.
Matching(m, p) == SelectSeq(m, LAMBDA e : starts_with(e[1], p))

\* The backend keys of the height marker, the epoch schedule and the blocks.
LedgerKeys ==
    {S_height, S_next_epoch_min_start_height, S_next_epoch_min_start_time}
    \cup {block_key(h, BlockFields[i][2]) : h \in Heights, i \in 1..Len(BlockFields)}

\* What an iterator has yielded so far is the beginning of the matching
\* entries of the store it was created on, and all of them once it is done.
IterYieldsMatching ==
    LET want == Matching(it.snap, it.prefix)
    IN  /\ Len(out) <= Len(want)
        /\ \A i \in 1..Len(out) :
               /\ S_subspace \o <<KEY_SEGMENT_SEPARATOR>> \o out[i].key = want[i][1]
               /\ out[i].val = want[i][2]
               /\ want[i][1] \notin LedgerKeys
        /\ \A i \in 1..(Len(want) - 1) : StrLt(want[i][1], want[i + 1][1])
        /\ it.done => Len(out) = Len(want)
        /\ Len(out) + Len(it.iter) <= Len(it.snap)

\* A call of next consumes at least one entry, or finds none left and ends
\* the iteration.
NextConsumes ==
    (last'.op = "next" /\ next) =>
        \/ Len(it'.iter) < Len(it.iter)
        \/ (Len(it.iter) = 0 /\ it'.done /\ out' = out)

\* C8: iter_prefix(p) ends after finitely many calls of next and yields,
\* each once and in ascending order of the backend key, exactly the entries
\* whose backend key starts with "subspace/" followed by p; never the height
\* marker, an epoch-schedule key or a height-scoped key; nothing, without
\* an error, when no entry matches.
C8_IterationExact == []IterYieldsMatching /\ [][NextConsumes]_vars

C8_Witness ==
    /\ it.done
    /\ Len(out) = 1
    /\ Len(written) = 2
    /\ Len(Matching(it.snap, S_subspace \o <<KEY_SEGMENT_SEPARATOR>>)) = 2

\* The stored keys that start with the latest height's prefix and whose
\* remainder is none of the six field names.
SixNames == {KeyToString(BlockFields[i][2]) : i \in 1..Len(BlockFields)}
UnknownKeys(m) ==
    IF S_height \in Keys(m) /\ decode(get(m, S_height)) # <<>>
    THEN LET p == prefix_of(decode(get(m, S_height))[1])
         IN  {k \in Keys(m) :
                 starts_with(k, p) /\ strip_prefix(k, p)[1] \notin SixNames}
    ELSE {}

\* Every value of the map decodes, and the epoch-schedule keys are stored.
WellFormedValues(m) ==
    /\ \A i \in 1..Len(m) : decode(m[i][2]) # <<>>
    /\ S_next_epoch_min_start_height \in Keys(m)
    /\ S_next_epoch_min_start_time \in Keys(m)

\* C9: with a key inside the latest height's prefix that is none of the six
\* (every stored value decoding), read_last_block() fails with UnknownKey.
C9_UnknownKeyRejected ==
    (/\ last.op = "read_last_block"
     /\ WellFormedValues(db)
     /\ UnknownKeys(db) # {})
    => (last.ret.kind = "Err" /\ last.ret.err = "UnknownKey")

\* Some of the six height-scoped keys of the height h is not stored.
FieldMissing(m, h) ==
    \E i \in 1..Len(BlockFields) : block_key(h, BlockFields[i][2]) \notin Keys(m)

\* C10: with the height key stored, read_last_block() does not return None,
\* and returns the Temporary error when one of the six fields of that
\* height is missing.
C10_NoneOnlyWithoutHeightKey ==
    (/\ last.op = "read_last_block"
     /\ S_height \in Keys(db)
     /\ decode(get(db, S_height)) # <<>>)
    => /\ last.ret.kind # "None"
       /\ FieldMissing(db, decode(get(db, S_height))[1])
              => (last.ret.kind = "Err" /\ last.ret.err = "Temporary")

\* What write_subspace_val(h, key, value) returns on the map m, and the map
\* it leaves.
PointWrite(m, key, value) ==
    [ret |-> write_delta(m, subspace_key(key), value),
     map |-> insert(m, subspace_key(key), value)]

\* What delete_subspace_val(h, key) returns on the map m, and the map it
\* leaves.
PointDelete(m, key) ==
    [ret |-> delete_len(m, subspace_key(key)),
     map |-> remove(m, subspace_key(key))]

\* C11: from one and the same store, a batched write or delete returns what
\* the point operation with the same arguments returns and leaves the store
\* the point operation leaves, and exec_batch after it changes nothing; so a
\* sequence run through the batched variants and exec_batch gives, step by
\* step, the deltas and the contents of the same sequence of point
\* operations.
C11_BatchedAsPoint ==
    [][/\ \A h \in SubspaceHeights, key \in AppKeys, value \in Values :
             (last'.op = "batch_write_subspace_val"
              /\ batch_write_subspace_val(h, key, value)) =>
                 /\ last'.ret = PointWrite(db, key, value).ret
                 /\ db' = PointWrite(db, key, value).map
       /\ \A h \in SubspaceHeights, key \in AppKeys :
             (last'.op = "batch_delete_subspace_val"
              /\ batch_delete_subspace_val(h, key)) =>
                 /\ last'.ret = PointDelete(db, key).ret
                 /\ db' = PointDelete(db, key).map
       /\ (last'.op = "exec_batch" /\ exec_batch) => db' = db]_vars

C11_Witness ==
    /\ last = Call("batch_write_subspace_val", -1)
    /\ subspace_val(db, <<S_a, S_x>>).some
    /\ subspace_val(db, <<S_a, S_y>>).some

\* The values stored under the key k.
StoredUnder(m, k) == {m[i][2] : i \in {j \in 1..Len(m) : m[j][1] = k}}

\* C12: between write_block calls, made at heights in any order, the height
\* key holds the encoding of the height of the most recent call and the two
\* epoch-schedule keys hold the values of that call, and nothing else is
\* stored under these three keys.
C12_LatestUnscoped ==
    (wb.n = 0 /\ written # <<>>) =>
        /\ StoredUnder(db, S_height) = {encode(LatestWritten.height)}
        /\ StoredUnder(db, S_next_epoch_min_start_height)
              = {encode(LatestWritten.next_epoch_min_start_height)}
        /\ StoredUnder(db, S_next_epoch_min_start_time)
              = {encode(LatestWritten.next_epoch_min_start_time)}

C12_Witness ==
    /\ wb.n = 0
    /\ Len(written) = 2
    /\ written[1].height > written[2].height
    /\ last.op = "read_last_block"

\* C13: the insert of the height marker is the last insert of write_block,
\* and in every state, between operations and between the inserts of a
\* write_block, all six height-scoped keys of the height the marker holds
\* are present.
C13_MarkerLast ==
    /\ \A s \in BlockStates :
          LET ins == write_block_inserts(s)
          IN  \A i \in 1..Len(ins) : (ins[i][1] = S_height) <=> (i = Len(ins))
    /\ S_height \in Keys(db) =>
          ~FieldMissing(db, decode(get(db, S_height))[1])

C13_Witness ==
    /\ Len(written) = 2
    /\ wb.n > 2
    /\ wb.s.height # written[1].height
    /\ S_height \in Keys(db)
    /\ block_key(wb.s.height, <<S_tree, S_root>>) \in Keys(db)
    /\ block_key(wb.s.height, <<S_tree, S_store>>) \notin Keys(db)

\* C14: read_last_block() returns a typed result, None, Some(block) or an
\* error, for every height written; it never aborts on the range it scans.
C14_TypedResult ==
    last.op = "read_last_block" => last.ret.kind \in {"None", "Ok", "Err"}

\* Every application key other than key reads the same before and after.
OthersKept(key) ==
    \A k \in AppKeys \ {key} : subspace_val(db', k) = subspace_val(db, k)

\* C15: a write to k, point or batched and at any height, makes k read as
\* the value written; a delete of k, point or batched and at any height,
\* makes k read as None; each leaves every other key as it read before, and
\* no other operation changes what any key reads as; read_subspace_val(k)
\* returns what k reads as.  So k reads as the value of the most recent
\* write to k that no delete of k followed, and as None otherwise.
C15_LatestValueRead ==
    [][/\ \A h \in SubspaceHeights, key \in AppKeys, value \in Values :
             (/\ last'.op \in {"write_subspace_val", "batch_write_subspace_val"}
              /\ \/ write_subspace_val(h, key, value)
                 \/ batch_write_subspace_val(h, key, value)) =>
                 /\ subspace_val(db', key) = Some(value)
                 /\ OthersKept(key)
       /\ \A h \in SubspaceHeights, key \in AppKeys :
             (/\ last'.op \in {"delete_subspace_val", "batch_delete_subspace_val"}
              /\ \/ delete_subspace_val(h, key)
                 \/ batch_delete_subspace_val(h, key)) =>
                 /\ subspace_val(db', key) = None
                 /\ OthersKept(key)
       /\ last'.op \notin {"write_subspace_val", "batch_write_subspace_val",
                           "delete_subspace_val", "batch_delete_subspace_val"} =>
             \A k \in AppKeys : subspace_val(db', k) = subspace_val(db, k)
       /\ \A key \in AppKeys :
             (last'.op = "read_subspace_val" /\ read_subspace_val(key)) =>
                 last'.ret = subspace_val(db', key)]_vars

C15_Witness ==
    /\ last = Call("read_subspace_val", Some(<<50, 50>>))
    /\ subspace_val(db, <<S_a, S_x>>) = None

\* The items an iteration over the map m with the prefix string p yields:
\* of each matching entry the key after "subspace/", the value and the gas.
Items(m, p) ==
    LET want == Matching(m, p)
    IN  [i \in 1..Len(want) |->
            LET k == strip_prefix(want[i][1], db_prefix_of)[1]
            IN  [key |-> k, val |-> want[i][2], gas |-> Len(k) + Len(want[i][2])]]

\* What the iterator has yielded is the beginning of the items of the store
\* as it was when iter_prefix was called, and all of them once it is done.
YieldsOfSnapshot ==
    it.live =>
        /\ Len(out) <= Len(Items(it.snap, it.prefix))
        /\ out = SubSeq(Items(it.snap, it.prefix), 1, Len(out))
        /\ it.done => out = Items(it.snap, it.prefix)

\* The store an iterator is held to is the store at the call of iter_prefix,
\* and no later operation replaces it.
SnapshotTaken ==
    /\ last'.op = "iter_prefix" => it'.snap = db
    /\ last'.op # "iter_prefix" => it'.snap = it.snap

\* C16: an iterator yields the entries of the store as it was when
\* iter_prefix was called, whatever subspace writes and deletes, point or
\* batched, run before it is exhausted; what it yields is determined by
\* that store and the prefix, so two iterators created on the same store
\* with the same prefix yield the same sequence.
C16_SnapshotIteration == []YieldsOfSnapshot /\ [][SnapshotTaken]_vars

C16_Witness ==
    /\ it.done
    /\ Len(out) = 2
    /\ subspace_val(db, <<S_a, S_x>>) = None
    /\ subspace_val(db, <<S_a, S_y>>) # subspace_val(it.snap, <<S_a, S_y>>)
    /\ subspace_val(db, <<S_a, S_y>>).some

\* The logical items of the store: the height marker, the two
\* epoch-schedule values, each field of each height, each application key.
LogicalItems ==
    {[ns |-> n, h |-> 0, f |-> 0, k |-> <<>>] :
        n \in {"height", "next_epoch_min_start_height", "next_epoch_min_start_time"}}
    \cup {[ns |-> "block", h |-> h, f |-> f, k |-> <<>>] :
            h \in Heights, f \in 1..Len(BlockFields)}
    \cup {[ns |-> "subspace", h |-> 0, f |-> 0, k |-> k] : k \in AppKeys}

\* The backend key the store builds for a logical item.
BackendKey(item) ==
    CASE item.ns = "height" -> S_height
      [] item.ns = "next_epoch_min_start_height" -> S_next_epoch_min_start_height
      [] item.ns = "next_epoch_min_start_time" -> S_next_epoch_min_start_time
      [] item.ns = "block" -> block_key(item.h, BlockFields[item.f][2])
      [] item.ns = "subspace" -> subspace_key(item.k)

\* Every field of every block written holds the value it was written with,
\* every subspace entry holds an application value, and the store has one
\* entry for each logical item written and not deleted.
NothingOverwritten ==
    /\ \A i \in 1..Len(written), f \in 1..Len(BlockFields) :
          StoredUnder(db, block_key(written[i].height, BlockFields[f][2]))
              = {encode(written[i][BlockFields[f][1]])}
    /\ \A k \in AppKeys :
          subspace_val(db, k).some => subspace_val(db, k).val \in Values
    /\ Len(db) = (IF written = <<>> THEN 0 ELSE 3)
                 + Len(BlockFields) * Len(written)
                 + Cardinality({k \in AppKeys : subspace_val(db, k).some})

\* The backend keys of different logical items are different strings.
KeysDistinct ==
    \A a, b \in LogicalItems : a # b => BackendKey(a) # BackendKey(b)

\* C17: the backend keys of different logical items are different strings,
\* and writing one item never overwrites another.
C17_CollisionFree == KeysDistinct /\ NothingOverwritten

C17_Witness ==
    /\ Len(written) = 2
    /\ \A k \in AppKeys : subspace_val(db, k).some
    /\ last.op = "write_block"

\* The total byte length of the values stored under "subspace/".
RECURSIVE SumLen(_)
SumLen(entries) ==
    IF entries = <<>> THEN 0 ELSE Len(Head(entries)[2]) + SumLen(Tail(entries))
TotalLen(m) == SumLen(Matching(m, db_prefix_of))

\* What a caller adds to its running total for the call that was just made:
\* the delta a write returned, minus the length a delete returned.
Accounted(call) ==
    IF call.op \in {"write_subspace_val", "batch_write_subspace_val"}
    THEN call.ret
    ELSE IF call.op \in {"delete_subspace_val", "batch_delete_subspace_val"}
         THEN 0 - call.ret
         ELSE 0

\* C18: the total is 0 on the empty store and every call changes the total
\* byte length of the subspace values by exactly what the caller accounts
\* for it; so the deltas of the writes minus the lengths of the deletes sum
\* to the bytes stored.
C18_DeltasSumToSize ==
    /\ TotalLen(db) = 0
    /\ [][TotalLen(db') = TotalLen(db) + Accounted(last')]_vars

C18_Witness ==
    /\ last = Call("batch_delete_subspace_val", 2)
    /\ TotalLen(db) = 1

\* The entries outside "subspace/": the height marker, the epoch schedule
\* and the height-scoped keys.
LedgerPart(m) == SelectSeq(m, LAMBDA e : ~starts_with(e[1], db_prefix_of))

\* The entries a write_block at the height h may not touch: the subspace,
\* and the keys stored under another height.
ForeignTo(m, h) ==
    SelectSeq(m, LAMBDA e :
        /\ e[1] \notin {S_height, S_next_epoch_min_start_height,
                        S_next_epoch_min_start_time}
        /\ first_segment(e[1]) # raw(h))

\* C19: a subspace write or delete, point or batched, leaves every entry
\* outside "subspace/" as it was, and with it the result of
\* read_last_block; write_block leaves every subspace entry and every key
\* stored under another height as it was.
C19_NamespacesApart ==
    [][/\ last'.op \in {"write_subspace_val", "batch_write_subspace_val",
                        "delete_subspace_val", "batch_delete_subspace_val"} =>
             /\ LedgerPart(db') = LedgerPart(db)
             /\ last_block(db') = last_block(db)
       /\ last'.op = "write_block" =>
             /\ Matching(db', db_prefix_of) = Matching(db, db_prefix_of)
             /\ ForeignTo(db', written'[Len(written')].height)
                   = ForeignTo(db, written'[Len(written')].height)]_vars

C19_Witness ==
    /\ last = Call("batch_delete_subspace_val", 2)
    /\ Len(written) = 2
    /\ last_block(db).kind = "Ok"
    /\ Matching(db, db_prefix_of) # <<>>

\* C20: a batched write is in the store when batch_write_subspace_val
\* returns, so read_subspace_val and an iteration started then see it, and
\* a batched delete is gone from both when batch_delete_subspace_val
\* returns; batch, exec_batch, flush and the batch's put and delete leave
\* the store as it was, so neither running exec_batch nor leaving it out
\* changes what was applied.
C20_BatchedAppliedAtCall ==
    [][/\ \A h \in SubspaceHeights, key \in AppKeys, value \in Values :
             (last'.op = "batch_write_subspace_val"
              /\ batch_write_subspace_val(h, key, value)) =>
                 /\ subspace_val(db', key) = Some(value)
                 /\ Items(db', iter_prefix_of(key))
                       = << [key |-> KeyToString(key), val |-> value,
                             gas |-> Len(KeyToString(key)) + Len(value)] >>
       /\ \A h \in SubspaceHeights, key \in AppKeys :
             (last'.op = "batch_delete_subspace_val"
              /\ batch_delete_subspace_val(h, key)) =>
                 /\ subspace_val(db', key) = None
                 /\ Items(db', iter_prefix_of(key)) = <<>>
       /\ last'.op \in {"batch", "exec_batch", "flush", "put", "delete"} =>
             db' = db]_vars

C20_Witness ==
    /\ last = Call("batch_write_subspace_val", 2)
    /\ written # <<>>
    /\ subspace_val(db, <<S_a, S_x>>) = None
    /\ subspace_val(db, <<S_a, S_y>>) = Some(<<50, 50>>)

====
